---- MODULE Spec2Model ----
(***************************************************************************)
(* StateForge: a table-driven finite state machine (StateForge.h) together *)
(* with the hooks, contexts and transition table of its Unity test.        *)
(*                                                                         *)
(* The machine is modelled for a family of transition tables: every        *)
(* sequence of at most MaxTransitions transitions drawn from               *)
(* TransitionPool, with every initial state.  The table of the test        *)
(* program is one member of the family.                                    *)
(***************************************************************************)
EXTENDS Naturals, Integers, Sequences, FiniteSets

\* Largest number of transitions in a table.
MaxTransitions == 3

\* enum class States / enum class Events of the test program.
States == {"Initial", "State1", "State2"}
Events == {"Event1", "Event2", "Event3"}

\* enum class TranResult.
TranResult == {"Change", "NoChange", "Reset", "NotFound", "InvalidContext"}

\* A null pointer and an empty std::function.
NULL == "nullptr"

\* Context1::type and Context2::type: static_cast<size_t> of the enumerators
\* of enum class Contexts { Context1, Context2 }.
Context1_type == 0
Context2_type == 1

\* The values the test hooks write into the contexts.
CONTEXT1_ON_ENTER_VALUE == 1000
CONTEXT1_ON_EXIT_VALUE == 2000
CONTEXT2_ON_ENTER_VALUE == 0 - 3000
CONTEXT2_ON_EXIT_VALUE == 0 - 4000

VARIABLES
  initial_state,    \* the initial_state argument of the constructor
  _initial_state,   \* StateMachine::_initial_state
  _current_state,   \* StateMachine::_current_state
  _transitions,     \* StateMachine::_transitions, in declaration order
  context1,         \* the global Context1 object
  context2,         \* the global Context2 object
  call,             \* the last member function called, with its arguments
  pre,              \* _current_state and the contexts when that call began
  result,           \* the value that call returned
  log,              \* the callbacks invoked during that call, in order
  fresh,            \* a machine constructed anew at the last resetState and
                    \* given the same calls since
  scenario,         \* how far the dispatches since construction follow Scenario
  frames            \* per thread, the activation of dispatch it is executing

vars == <<initial_state, _initial_state, _current_state, _transitions,
          context1, context2, call, pre, result, log, fresh, scenario,
          frames>>

----------------------------------------------------------------------------
(* Contexts *)

\* IsType with >= written for ==.
IsType_AtLeast(ctx, type) == ctx.derived_type >= type

\* Context::is<Type>(): the stored tag against Type::type.
IsType(ctx, type) == ctx.derived_type = type

\* Context1() and Context2(): the tag of the class and a zero field.
NewContext1 == [derived_type |-> Context1_type, positive_int |-> 0]
NewContext2 == [derived_type |-> Context2_type, negative_int |-> 0]

----------------------------------------------------------------------------
(* Callbacks of the test program *)

\* The hooks of the test: each checks its context pointer and the context's
\* type, then stores its value in the context.  mem maps the two context
\* objects' addresses to their contents.
RunHook(fn, ptr, mem) ==
  CASE fn = "onEnter1" /\ ptr # NULL /\ IsType(mem[ptr], Context1_type) ->
         [mem EXCEPT ![ptr].positive_int = CONTEXT1_ON_ENTER_VALUE]
    [] fn = "onExit1" /\ ptr # NULL /\ IsType(mem[ptr], Context1_type) ->
         [mem EXCEPT ![ptr].positive_int = CONTEXT1_ON_EXIT_VALUE]
    [] fn = "onEnter2" /\ ptr # NULL /\ IsType(mem[ptr], Context2_type) ->
         [mem EXCEPT ![ptr].negative_int = CONTEXT2_ON_ENTER_VALUE]
    [] fn = "onExit2" /\ ptr # NULL /\ IsType(mem[ptr], Context2_type) ->
         [mem EXCEPT ![ptr].negative_int = CONTEXT2_ON_EXIT_VALUE]
    [] OTHER -> mem

\* The values a decision callback may return.  transitionTo1, transitionTo2
\* and transitionToInit of the test return Change; "decide" stands for a
\* std::function supplied by another caller, which may return any TranResult.
CallbackReturns(fn) ==
  IF fn \in {"transitionTo1", "transitionTo2", "transitionToInit"}
  THEN {"Change"}
  ELSE TranResult

----------------------------------------------------------------------------
(* Transition tables *)

\* struct Transition.
Tr(from, event, to, on_enter, on_transition, on_exit, context) ==
  [from |-> from, event |-> event, to |-> to, on_enter |-> on_enter,
   on_transition |-> on_transition, on_exit |-> on_exit, context |-> context]

\* The table the test program gives to sm.
TestTable ==
  << Tr("Initial", "Event1", "State1", NULL, "transitionTo1", NULL, NULL),
     Tr("State1", "Event2", "State2", "onEnter1", "transitionTo2", "onExit1", "context1"),
     Tr("State2", "Event3", "Initial", "onEnter2", "transitionToInit", "onExit2", "context2") >>

\* The transitions tables are built from: the three of the test and four
\* more that repeat a (from, event) pair or a (from, event, to) triple of the
\* test with another destination, other hooks, another context, no decision
\* callback or a decision callback that may return any TranResult.
TransitionPool ==
  { TestTable[1], TestTable[2], TestTable[3],
    Tr("Initial", "Event1", "State2", NULL, NULL, NULL, NULL),
    Tr("Initial", "Event1", "State1", "onEnter1", "decide", "onExit1", "context1"),
    Tr("State1", "Event2", "State2", "onEnter2", "decide", "onExit2", "context2"),
    Tr("State1", "Event3", "Initial", NULL, "decide", NULL, NULL) }

\* std::initializer_list<Transition>: any sequence of distinct pool
\* transitions (a verbatim repeat of a transition is never selected and adds
\* nothing to a table).
Tables ==
  { trs \in UNION { [1..n -> TransitionPool] : n \in 0..MaxTransitions } :
      \A i, j \in 1..Len(trs) : trs[i] = trs[j] => i = j }

\* The (from, event, to) keys getContext is asked for: those of the pool
\* transitions, each of which a given table may or may not hold.
ContextKeys == { <<t.from, t.event, t.to>> : t \in TransitionPool }

----------------------------------------------------------------------------
(* StateMachine::dispatch, piece by piece *)

\* SelectTransition with the comparison of the event left out.
SelectTransition_IgnoresEvent(trs, cur, event) ==
  LET match == {i \in 1..Len(trs) : trs[i].from = cur}
  IN IF match = {} THEN 0 ELSE CHOOSE i \in match : \A j \in match : i <= j

\* SelectTransition with the loop kept running after a match: the last
\* matching transition wins.
SelectTransition_LastMatch(trs, cur, event) ==
  LET match == {i \in 1..Len(trs) : trs[i].from = cur /\ trs[i].event = event}
  IN IF match = {} THEN 0 ELSE CHOOSE i \in match : \A j \in match : i >= j

\* The outer loop: the index of the first transition whose from is the
\* current state and whose event is the dispatched one; 0 if there is none.
RECURSIVE SelectFrom(_, _, _, _)
SelectFrom(trs, i, cur, event) ==
  IF i > Len(trs) THEN 0
  ELSE IF trs[i].from = cur /\ trs[i].event = event THEN i
  ELSE SelectFrom(trs, i + 1, cur, event)

SelectTransition(trs, cur, event) == SelectFrom(trs, 1, cur, event)

\* Decide with the result initialised to NoChange.
Decide_DefaultNoChange(t, r) == IF t.on_transition # NULL THEN r ELSE "NoChange"

\* The result: Change unless on_transition is set, then what it returns (r).
Decide(t, r) == IF t.on_transition # NULL THEN r ELSE "Change"

\* NextState without the test for Reset.
NextState_IgnoresReset(res, t, init) == t.to

\* NextState with the transition's to taken only on Change: the state the
\* machine stays in is the next state for the other results.
NextState_StaysUnlessChange(res, t, init) ==
  IF res = "Reset" THEN init ELSE IF res = "Change" THEN t.to ELSE t.from

\* next_state: the initial state on Reset, else the transition's to.
NextState(res, t, init) == IF res = "Reset" THEN init ELSE t.to

\* EnterTransition looking for the transitions that arrive in next_state
\* instead of those that leave it.
EnterTransition_MatchesTo(trs, next_state) ==
  LET match == {i \in 1..Len(trs) :
                  trs[i].to = next_state /\ trs[i].on_enter # NULL}
  IN IF match = {} THEN 0 ELSE CHOOSE i \in match : \A j \in match : i <= j

\* EnterTransition with the break outside the test for on_enter: the scan
\* stops at the first transition that leaves next_state, hook or no hook.
EnterTransition_BreaksEarly(trs, next_state) ==
  LET match == {i \in 1..Len(trs) : trs[i].from = next_state}
      first == CHOOSE i \in match : \A j \in match : i <= j
  IN IF match = {} THEN 0
     ELSE IF trs[first].on_enter # NULL THEN first ELSE 0

\* The inner loop: the index of the first transition whose from is
\* next_state and whose on_enter is set; 0 if there is none.
RECURSIVE EnterFrom(_, _, _)
EnterFrom(trs, i, next_state) ==
  IF i > Len(trs) THEN 0
  ELSE IF trs[i].from = next_state /\ trs[i].on_enter # NULL THEN i
  ELSE EnterFrom(trs, i + 1, next_state)

EnterTransition(trs, next_state) == EnterFrom(trs, 1, next_state)

\* Commit with every result but Reset treated as Change.
Commit_DefaultChanges(res, t, cur, init) ==
  IF res = "Reset" THEN init ELSE t.to

\* Commit with NotFound and InvalidContext falling into the Change case.
Commit_RejectionChanges(res, t, cur, init) ==
  CASE res \in {"Change", "NotFound", "InvalidContext"} -> t.to
    [] res = "Reset" -> init
    [] OTHER -> cur

\* Commit with NoChange falling into the Change case.
Commit_NoChangeMoves(res, t, cur, init) ==
  CASE res \in {"Change", "NoChange"} -> t.to
    [] res = "Reset" -> init
    [] OTHER -> cur

\* Commit with Reset storing the first enumerator of the state type
\* instead of _initial_state.
Commit_ResetToFirstState(res, t, cur, init) ==
  CASE res = "Change" -> t.to
    [] res = "Reset" -> "Initial"
    [] OTHER -> cur

Commit_IfStillInFrom(res, t, cur, init) ==
  CASE res = "Change" /\ cur = t.from -> t.to
    [] res = "Reset" -> init
    [] OTHER -> cur

\* The switch: the value of _current_state when dispatch returns.
Commit(res, t, cur, init) ==
  CASE res = "Change" -> t.to
    [] res = "Reset" -> init
    [] OTHER -> cur

\* One callback invocation: which member of which transition was invoked,
\* the function it held, the four arguments, _current_state at the call and
\* the value returned (NULL for the hooks, which return void).
Invocation(kind, owner, fn, t, ptr, cur, returned) ==
  [kind |-> kind, owner |-> owner, fn |-> fn, from |-> t.from,
   event |-> t.event, to |-> t.to, context |-> ptr, current |-> cur,
   returned |-> returned]

Memory == [context1 |-> context1, context2 |-> context2]

\* The test's sequence of dispatches on a fresh machine (testStateTransition1
\* up to its second dispatch, then testStateTransition2 and 3).
Scenario == <<"Event1", "Event1", "Event2", "Event3">>
Off == 0 - 1

Snapshot == [current |-> _current_state, context1 |-> context1,
             context2 |-> context2]

\* The machine the constructor makes from initial_state and the table, as
\* the last call sees it; reset tells that it replaces one with a history.
Constructed(reset) ==
  [current |-> initial_state, result |-> NULL, log |-> <<>>, reset |-> reset]

----------------------------------------------------------------------------
(* Construction *)

\* The constructor, given one of the tables.
Constructor(tables) ==
  /\ initial_state \in States
  /\ _initial_state = initial_state
  /\ _current_state = initial_state
  /\ _transitions \in tables
  /\ context1 = NewContext1
  /\ context2 = NewContext2
  /\ call = [op |-> "StateMachine"]
  /\ pre = [current |-> initial_state, context1 |-> NewContext1,
            context2 |-> NewContext2]
  /\ result = NULL
  /\ log = <<>>
  /\ fresh = Constructed(FALSE)
  /\ scenario = 0

\* The machine used by one caller, one whole call at a time.
Init ==
  /\ Constructor(Tables)
  /\ frames = <<>>

----------------------------------------------------------------------------
(* Member functions *)

\* The body of dispatch's outer loop for the selected transition, number i,
\* of a machine with table trs, initial state init, current state cur and
\* contexts mem: the callbacks it invokes, what they do to the contexts, the
\* new current state and the value returned.  r is what on_transition
\* returns.
Run(trs, init, cur, mem, i, r) ==
  LET t == trs[i]
      res == Decide(t, r)
      log1 == IF t.on_transition # NULL
              THEN <<Invocation("on_transition", i, t.on_transition, t,
                                t.context, cur, r)>>
              ELSE <<>>
      mem1 == IF t.on_exit # NULL
              THEN RunHook(t.on_exit, t.context, mem)
              ELSE mem
      log2 == IF t.on_exit # NULL
              THEN Append(log1, Invocation("on_exit", i, t.on_exit, t,
                                           t.context, cur, NULL))
              ELSE log1
      next_state == NextState(res, t, init)
      n == EnterTransition(trs, next_state)
      mem2 == IF n # 0
              THEN RunHook(trs[n].on_enter, trs[n].context, mem1)
              ELSE mem1
      log3 == IF n # 0
              THEN Append(log2, Invocation("on_enter", n, trs[n].on_enter,
                                           t, trs[n].context, cur, NULL))
              ELSE log2
  IN [memory |-> mem2, log |-> log3, result |-> res,
      current |-> Commit(res, t, cur, init)]

\* The same for this machine.
RunTransition(i, r) ==
  Run(_transitions, _initial_state, _current_state, Memory, i, r)

\* dispatch(event) on the fresh machine; r is what on_transition returns.
FreshDispatch(event, r) ==
  LET j == SelectTransition(_transitions, fresh.current, event)
      out == Run(_transitions, initial_state, fresh.current, Memory, j, r)
  IN IF j = 0
     THEN [fresh EXCEPT !.result = "NotFound", !.log = <<>>]
     ELSE [fresh EXCEPT !.result = out.result, !.log = out.log,
                        !.current = out.current]

\* TranResult dispatch(EventType event)
dispatch(event) ==
  /\ call' = [op |-> "dispatch", event |-> event]
  /\ pre' = Snapshot
  /\ scenario' = IF scenario \in 0..(Len(Scenario) - 1)
                    /\ event = Scenario[scenario + 1]
                 THEN scenario + 1 ELSE Off
  /\ UNCHANGED <<initial_state, _initial_state, _transitions, frames>>
  /\ \E i \in {SelectTransition(_transitions, _current_state, event)} :
       IF i = 0
       THEN /\ result' = "NotFound"
            /\ log' = <<>>
            /\ fresh' = FreshDispatch(event, "Change")
            /\ UNCHANGED <<_current_state, context1, context2>>
       ELSE \E r \in (IF _transitions[i].on_transition # NULL
                      THEN CallbackReturns(_transitions[i].on_transition)
                      ELSE {"Change"}) :
              \E out \in {RunTransition(i, r)} :
                /\ context1' = out.memory.context1
                /\ context2' = out.memory.context2
                /\ log' = out.log
                /\ _current_state' = out.current
                /\ result' = out.result
                /\ fresh' = FreshDispatch(event, r)

\* StateType getCurrentState()
getCurrentState ==
  /\ call' = [op |-> "getCurrentState"]
  /\ pre' = Snapshot
  /\ result' = _current_state
  /\ log' = <<>>
  /\ fresh' = [fresh EXCEPT !.result = fresh.current, !.log = <<>>]
  /\ UNCHANGED <<initial_state, _initial_state, _current_state,
                 _transitions, context1, context2, scenario, frames>>

\* resetState with the assignment the wrong way round.
resetState_Reversed ==
  /\ _initial_state' = _current_state
  /\ call' = [op |-> "resetState"]
  /\ pre' = Snapshot
  /\ result' = NULL
  /\ log' = <<>>
  /\ fresh' = Constructed(TRUE)
  /\ scenario' = Off
  /\ UNCHANGED <<initial_state, _current_state, _transitions, context1,
                 context2, frames>>

\* void resetState()
resetState ==
  /\ _current_state' = _initial_state
  /\ call' = [op |-> "resetState"]
  /\ pre' = Snapshot
  /\ result' = NULL
  /\ log' = <<>>
  /\ fresh' = Constructed(TRUE)
  /\ scenario' = Off
  /\ UNCHANGED <<initial_state, _initial_state, _transitions, context1,
                 context2, frames>>

\* LookupContext with the comparison of to left out.
LookupContext_IgnoresTo(trs, from, event, to) ==
  LET match == {i \in 1..Len(trs) :
                  trs[i].from = from /\ trs[i].event = event}
  IN IF match = {} THEN NULL
     ELSE trs[CHOOSE i \in match : \A j \in match : i <= j].context

\* The loop of getContext: the context of the first transition whose from,
\* event and to are the arguments; nullptr if there is none.
RECURSIVE LookupFrom(_, _, _, _, _)
LookupFrom(trs, i, from, event, to) ==
  IF i > Len(trs) THEN NULL
  ELSE IF trs[i].from = from /\ trs[i].event = event /\ trs[i].to = to
       THEN trs[i].context
  ELSE LookupFrom(trs, i + 1, from, event, to)

LookupContext(trs, from, event, to) == LookupFrom(trs, 1, from, event, to)

\* Context* const getContext(StateType from, EventType event, StateType to)
getContext(from, event, to) ==
  /\ call' = [op |-> "getContext", from |-> from, event |-> event, to |-> to]
  /\ pre' = Snapshot
  /\ result' = LookupContext(_transitions, from, event, to)
  /\ log' = <<>>
  /\ fresh' = [fresh EXCEPT !.result = result', !.log = <<>>]
  /\ UNCHANGED <<initial_state, _initial_state, _current_state,
                 _transitions, context1, context2, scenario, frames>>

Next ==
  \/ \E event \in Events : dispatch(event)
  \/ getCurrentState
  \/ resetState
  \/ \E key \in ContextKeys : getContext(key[1], key[2], key[3])

Spec == Init /\ [][Next]_vars

----------------------------------------------------------------------------
(* dispatch statement by statement, for callers on one or two threads.    *)
(* _current_state is a plain field: each statement reads or writes it as  *)
(* it is at that moment, and statements of two threads interleave.        *)

\* A thread that is not inside dispatch.
IdleFrame ==
  [pc |-> "idle", event |-> NULL, entry |-> NULL, i |-> 0, seen |-> NULL,
   result |-> NULL, next_state |-> NULL, n |-> 0, log |-> <<>>, last |-> FALSE,
   ret |-> NULL]

\* The write of _current_state, as an entry of a frame's log.
Write(value) == [kind |-> "write", value |-> value]

\* The caller enters dispatch(event): the outer loop starts at the first
\* transition.  entry is _current_state at that moment.
Call(th, event) ==
  /\ frames[th].pc = "idle"
  /\ frames' = [frames EXCEPT ![th] =
                  [IdleFrame EXCEPT !.pc = "select", !.event = event,
                                    !.entry = _current_state, !.i = 1]]
  /\ UNCHANGED <<initial_state, _initial_state, _current_state, _transitions,
                 context1, context2, call, pre, result, log, fresh, scenario>>

Advance_Stays(i) == i

\* The range-based for loops go from one transition to the next.
Advance(i) == i + 1

\* One iteration of the outer loop: transition i is compared with
\* _current_state and the event; past the last transition dispatch returns
\* NotFound.
SelectStep(th) ==
  /\ frames[th].pc = "select"
  /\ \E f \in {frames[th]} :
       frames' = [frames EXCEPT ![th] =
         IF f.i > Len(_transitions)
         THEN [f EXCEPT !.pc = "done", !.ret = "NotFound"]
         ELSE IF /\ _transitions[f.i].from = _current_state
                 /\ _transitions[f.i].event = f.event
              THEN [f EXCEPT !.pc = "decide", !.seen = _current_state]
              ELSE [f EXCEPT !.i = Advance(f.i)]]
  /\ UNCHANGED <<initial_state, _initial_state, _current_state, _transitions,
                 context1, context2, call, pre, result, log, fresh, scenario>>

\* result = Change, then on_transition if it is set; r is what it returns.
DecideStep(th) ==
  /\ frames[th].pc = "decide"
  /\ \E f \in {frames[th]} : \E t \in {_transitions[f.i]} :
       \E r \in (IF t.on_transition # NULL
                 THEN CallbackReturns(t.on_transition) ELSE {"Change"}) :
         frames' = [frames EXCEPT ![th] =
           [f EXCEPT !.pc = "exit",
                     !.result = Decide(t, r),
                     !.log = IF t.on_transition # NULL
                             THEN Append(f.log,
                                    Invocation("on_transition", f.i,
                                               t.on_transition, t, t.context,
                                               _current_state, r))
                             ELSE f.log]]
  /\ UNCHANGED <<initial_state, _initial_state, _current_state, _transitions,
                 context1, context2, call, pre, result, log, fresh, scenario>>

ExitStep_CommitsFirst(th) ==
  /\ frames[th].pc = "exit"
  /\ \E f \in {frames[th]} : \E t \in {_transitions[f.i]} :
       \E mem \in {IF t.on_exit # NULL
                   THEN RunHook(t.on_exit, t.context, Memory)
                   ELSE Memory} :
         /\ _current_state' =
              Commit(f.result, t, _current_state, _initial_state)
         /\ context1' = mem.context1
         /\ context2' = mem.context2
         /\ frames' = [frames EXCEPT ![th] =
              [f EXCEPT !.pc = "enter",
                        !.next_state = NextState(f.result, t, _initial_state),
                        !.n = 1,
                        !.log = IF t.on_exit # NULL
                                THEN Append(f.log,
                                       Invocation("on_exit", f.i, t.on_exit,
                                                  t, t.context,
                                                  _current_state, NULL))
                                ELSE f.log]]
  /\ UNCHANGED <<initial_state, _initial_state, _transitions, call, pre,
                 result, log, fresh, scenario>>

\* on_exit if it is set, then next_state; the inner loop starts at the first
\* transition.
ExitStep(th) ==
  /\ frames[th].pc = "exit"
  /\ \E f \in {frames[th]} : \E t \in {_transitions[f.i]} :
       \E mem \in {IF t.on_exit # NULL
                   THEN RunHook(t.on_exit, t.context, Memory)
                   ELSE Memory} :
         /\ context1' = mem.context1
         /\ context2' = mem.context2
         /\ frames' = [frames EXCEPT ![th] =
              [f EXCEPT !.pc = "enter",
                        !.next_state = NextState(f.result, t, _initial_state),
                        !.n = 1,
                        !.log = IF t.on_exit # NULL
                                THEN Append(f.log,
                                       Invocation("on_exit", f.i, t.on_exit,
                                                  t, t.context,
                                                  _current_state, NULL))
                                ELSE f.log]]
  /\ UNCHANGED <<initial_state, _initial_state, _current_state, _transitions,
                 call, pre, result, log, fresh, scenario>>

AfterEnter_KeepsScanning(f) == [f EXCEPT !.n = f.n + 1]

\* The break after on_enter: the inner loop is left for the switch.
AfterEnter(f) == [f EXCEPT !.pc = "commit"]

\* One iteration of the inner loop: transition n is compared with next_state;
\* if it leaves next_state and has an on_enter, that is invoked and the loop
\* is left.
EnterStep(th) ==
  /\ frames[th].pc = "enter"
  /\ \E f \in {frames[th]} :
       IF f.n > Len(_transitions)
       THEN /\ frames' = [frames EXCEPT ![th] = [f EXCEPT !.pc = "commit"]]
            /\ UNCHANGED <<context1, context2>>
       ELSE \E t \in {_transitions[f.i]}, next \in {_transitions[f.n]} :
              IF next.from = f.next_state /\ next.on_enter # NULL
              THEN \E mem \in {RunHook(next.on_enter, next.context, Memory)} :
                     /\ context1' = mem.context1
                     /\ context2' = mem.context2
                     /\ frames' = [frames EXCEPT ![th] =
                          [AfterEnter(f) EXCEPT
                             !.log = Append(f.log,
                                       Invocation("on_enter", f.n,
                                                  next.on_enter, t,
                                                  next.context,
                                                  _current_state, NULL))]]
              ELSE /\ frames' = [frames EXCEPT ![th] =
                                   [f EXCEPT !.n = Advance(f.n)]]
                   /\ UNCHANGED <<context1, context2>>
  /\ UNCHANGED <<initial_state, _initial_state, _current_state, _transitions,
                 call, pre, result, log, fresh, scenario>>

\* The switch assigns _current_state on Change and on Reset.
Writes(res) == res \in {"Change", "Reset"}

\* The switch: _current_state is assigned on Change and Reset, and dispatch
\* returns the result.  last marks the call whose write is the latest.
CommitStep(th) ==
  /\ frames[th].pc = "commit"
  /\ \E f \in {frames[th]} : \E t \in {_transitions[f.i]} :
       /\ _current_state' =
            Commit(f.result, t, _current_state, _initial_state)
       /\ frames' = [o \in DOMAIN frames |->
            IF o = th
            THEN [f EXCEPT !.pc = "done",
                           !.ret = f.result,
                           !.last = Writes(f.result),
                           !.log = IF Writes(f.result)
                                   THEN Append(f.log, Write(_current_state'))
                                   ELSE f.log]
            ELSE [frames[o] EXCEPT !.last = @ /\ ~Writes(f.result)]]
  /\ UNCHANGED <<initial_state, _initial_state, _transitions, context1,
                 context2, call, pre, result, log, fresh, scenario>>

\* The caller has the return value and is outside dispatch again.
ReturnStep(th) ==
  /\ frames[th].pc = "done"
  /\ frames' = [frames EXCEPT ![th] = IdleFrame]
  /\ UNCHANGED <<initial_state, _initial_state, _current_state, _transitions,
                 context1, context2, call, pre, result, log, fresh, scenario>>

\* The statements of dispatch a thread executes once it has entered it.
Running(th) ==
  \/ SelectStep(th)
  \/ DecideStep(th)
  \/ ExitStep(th)
  \/ EnterStep(th)
  \/ CommitStep(th)

StepNext ==
  \E th \in DOMAIN frames :
    \/ \E event \in Events : Call(th, event)
    \/ SelectStep(th)
    \/ DecideStep(th)
    \/ ExitStep(th)
    \/ EnterStep(th)
    \/ CommitStep(th)
    \/ ReturnStep(th)

\* One thread calls dispatch.
StepInit ==
  /\ Constructor(Tables)
  /\ frames = [th \in {"main"} |-> IdleFrame]

\* The tables of transitions that leave State1, the one state from which the
\* pool has transitions on two different events.
RaceTables ==
  { trs \in Tables : \A i \in 1..Len(trs) : trs[i].from = "State1" }

\* Two threads call dispatch on the same machine without synchronisation.
RaceInit ==
  /\ Constructor(RaceTables)
  /\ frames = [th \in {"main", "other"} |-> IdleFrame]

\* A thread inside dispatch goes on executing it: dispatch does not block,
\* and the callbacks are taken to return.
StepSpec ==
  StepInit /\ [][StepNext]_vars /\ WF_vars(\E th \in DOMAIN frames : Running(th))

RaceSpec == RaceInit /\ [][StepNext]_vars

----------------------------------------------------------------------------
(* Vocabulary of the properties: everything below speaks of the last call *)

Dispatched == call.op = "dispatch"

\* The transitions that match the last dispatch: from is the state the
\* machine was in and event is the one dispatched.
Matching ==
  IF Dispatched
  THEN {i \in 1..Len(_transitions) :
          /\ _transitions[i].from = pre.current
          /\ _transitions[i].event = call.event}
  ELSE {}

Least(S) == CHOOSE i \in S : \A j \in S : i <= j

\* The first-declared matching transition.
Selected == _transitions[Least(Matching)]

\* The positions in the log of the invocations of one kind of callback.
Entries(kind) == {k \in 1..Len(log) : log[k].kind = kind}

\* The transitions that leave state s and carry an on_enter.
Entering(s) ==
  {i \in 1..Len(_transitions) :
     _transitions[i].from = s /\ _transitions[i].on_enter # NULL}

ContextsUnchanged == context1 = pre.context1 /\ context2 = pre.context2

----------------------------------------------------------------------------
\* C1: a dispatch of an event for which no transition has from equal to the
\* current state and event equal to that event returns NotFound, leaves the
\* current state as it was and invokes no callback.
C1_NoMatchIsNotFound ==
  (Dispatched /\ Matching = {}) =>
    /\ result = "NotFound"
    /\ _current_state = pre.current
    /\ log = <<>>

\* C1 witness: an event with no transition from the current state, in a table
\* that has transitions from that state for other events.
C1_Witness ==
  /\ Dispatched /\ Matching = {}
  /\ \E i \in 1..Len(_transitions) : _transitions[i].from = pre.current
  /\ pre.current # initial_state

\* C2: a dispatch that selects a transition without a decision callback
\* returns Change and the current state becomes that transition's to.
C2_NoCallbackChanges ==
  (Dispatched /\ Matching # {} /\ Selected.on_transition = NULL) =>
    /\ result = "Change"
    /\ _current_state = Selected.to

C2_Witness ==
  /\ Dispatched /\ Matching # {}
  /\ Selected.on_transition = NULL
  /\ _current_state # pre.current

\* C3: a dispatch that selects a transition with a decision callback invokes
\* it once, returns the value it returned, and the current state becomes the
\* transition's to on Change, the initial state on Reset, and stays what it
\* was on NoChange, NotFound and InvalidContext.
C3_CallbackDecides ==
  (Dispatched /\ Matching # {} /\ Selected.on_transition # NULL) =>
    /\ Entries("on_transition") = {1}
    /\ result = log[1].returned
    /\ result = "Change" => _current_state = Selected.to
    /\ result = "Reset" => _current_state = initial_state
    /\ result \in {"NoChange", "NotFound", "InvalidContext"} =>
         _current_state = pre.current

\* C3 witness: the callback returned InvalidContext on a transition whose to
\* is neither the current nor the initial state.
C3_Witness ==
  /\ Dispatched /\ Matching # {}
  /\ Selected.on_transition # NULL
  /\ result = "InvalidContext"
  /\ Selected.to \notin {pre.current, initial_state}
  /\ pre.current # initial_state

\* C4: after resetState the current state is the initial state, whatever it
\* was before, and resetState invokes no callback.
C4_ResetStateIsSilent ==
  (call.op = "resetState") =>
    /\ _current_state = initial_state
    /\ log = <<>>
    /\ ContextsUnchanged

C4_Witness ==
  /\ call.op = "resetState"
  /\ pre.current # initial_state
  /\ pre.context1 # NewContext1

\* C5: when the decision callback of the selected transition returns Reset,
\* the current state becomes the initial state and the on_enter of the first
\* transition that leaves the initial state and carries an on_enter is
\* invoked exactly once; no on_enter is invoked if there is no such
\* transition.
C5_ResetEntersInitial ==
  (Dispatched /\ Matching # {} /\ Selected.on_transition # NULL
     /\ Len(log) >= 1 /\ log[1].returned = "Reset") =>
    /\ _current_state = initial_state
    /\ IF Entering(initial_state) = {}
       THEN Entries("on_enter") = {}
       ELSE /\ Cardinality(Entries("on_enter")) = 1
            /\ \A k \in Entries("on_enter") :
                 /\ log[k].owner = Least(Entering(initial_state))
                 /\ log[k].fn =
                      _transitions[Least(Entering(initial_state))].on_enter

\* C5 witness: a Reset away from the initial state, over a transition whose
\* to has an on_enter of its own, with an on_enter for the initial state.
C5_Witness ==
  /\ Dispatched /\ Matching # {}
  /\ result = "Reset"
  /\ pre.current # initial_state
  /\ Selected.to # initial_state
  /\ Entering(Selected.to) # {}
  /\ Entries("on_enter") # {}

\* C6 as stated: a dispatch that returns NotFound leaves the current state
\* and every context unchanged and runs no on_exit and no on_enter hook,
\* whatever the decision callbacks do.
C6_NotFoundHasNoEffect ==
  (Dispatched /\ result = "NotFound") =>
    /\ _current_state = pre.current
    /\ ContextsUnchanged
    /\ Entries("on_exit") = {}
    /\ Entries("on_enter") = {}

\* C6 amended: a dispatch that returns NotFound leaves the current state
\* unchanged; when no transition matched it also leaves every context
\* unchanged and invokes no callback; when the NotFound is the answer of the
\* selected transition's decision callback, that transition's on_exit (if
\* set) and the on_enter found for its to state (if any) are still invoked.
C6_NotFoundKeepsState ==
  (Dispatched /\ result = "NotFound") =>
    /\ _current_state = pre.current
    /\ Matching = {} => (ContextsUnchanged /\ log = <<>>)
    /\ Matching # {} =>
         /\ Selected.on_exit # NULL => Entries("on_exit") # {}
         /\ Entering(Selected.to) # {} => Entries("on_enter") # {}

\* C6 witness: NotFound from a decision callback, with a context changed by
\* the hooks that ran.
C6_Witness ==
  /\ Dispatched /\ result = "NotFound"
  /\ Matching # {}
  /\ Selected.to # pre.current
  /\ ~ContextsUnchanged

\* C7: when several transitions have the same (from, event), dispatch uses
\* the one declared first: on_transition and on_exit are those of that
\* transition, invoked with its from, event, to and context, the state
\* changes to its to, and no later transition with that (from, event) is
\* used.
C7_FirstMatchWins ==
  (Dispatched /\ Matching # {}) =>
    /\ \A k \in Entries("on_transition") \cup Entries("on_exit") :
         /\ log[k].owner = Least(Matching)
         /\ log[k].context = Selected.context
         /\ log[k].fn = (IF log[k].kind = "on_exit"
                         THEN Selected.on_exit ELSE Selected.on_transition)
    /\ \A k \in 1..Len(log) :
         /\ log[k].from = Selected.from
         /\ log[k].event = Selected.event
         /\ log[k].to = Selected.to
    /\ (Selected.on_transition # NULL) = (Entries("on_transition") # {})
    /\ (Selected.on_exit # NULL) = (Entries("on_exit") # {})
    /\ Selected.on_transition = NULL => result = "Change"
    /\ result = "Change" => _current_state = Selected.to

\* C7 witness: two transitions with the same (from, event) that differ in
\* to, in on_transition and in context, and a dispatch that selected one.
C7_Witness ==
  /\ Dispatched
  /\ \E i, j \in Matching :
       /\ i < j
       /\ _transitions[i].to # _transitions[j].to
       /\ _transitions[i].on_transition # _transitions[j].on_transition
       /\ _transitions[i].context # _transitions[j].context
  /\ result = "Change"

\* C8: getContext(from, event, to) returns the context of the first-declared
\* transition whose from, event and to are the arguments, nullptr if there is
\* none, in any state of the machine; it changes neither the current state
\* nor a context and invokes no callback.
C8_GetContextLooksUp ==
  (call.op = "getContext") =>
    LET match == {i \in 1..Len(_transitions) :
                    /\ _transitions[i].from = call.from
                    /\ _transitions[i].event = call.event
                    /\ _transitions[i].to = call.to}
    IN /\ result = (IF match = {} THEN NULL
                    ELSE _transitions[Least(match)].context)
       /\ _current_state = pre.current
       /\ ContextsUnchanged
       /\ log = <<>>

\* C8 witness: away from the initial state, a query for a transition the
\* table lacks although it has one with the same from and event and a
\* context.
C8_Witness ==
  /\ call.op = "getContext"
  /\ result = NULL
  /\ _current_state # initial_state
  /\ \E i \in 1..Len(_transitions) :
       /\ _transitions[i].from = call.from
       /\ _transitions[i].event = call.event
       /\ _transitions[i].to # call.to
       /\ _transitions[i].context # NULL
  /\ \A i \in 1..Len(_transitions) :
       ~(/\ _transitions[i].from = call.from
         /\ _transitions[i].event = call.event
         /\ _transitions[i].to = call.to)

\* C9: after construction the current state is the initial state; afterwards
\* it changes only in a dispatch that returns Change or Reset or in
\* resetState, never in getCurrentState or getContext, and the initial state
\* never changes.
C9_OnlyDispatchAndResetWrite ==
  /\ _current_state = initial_state
  /\ _initial_state = initial_state
  /\ [][ /\ _current_state' # _current_state =>
              \/ call'.op = "resetState"
              \/ call'.op = "dispatch" /\ result' \in {"Change", "Reset"}
         /\ call'.op \in {"getCurrentState", "getContext"} =>
              _current_state' = _current_state
         /\ _initial_state' = _initial_state ]_vars

\* C9 witness: a dispatch whose decision callback answered NoChange on a
\* transition that leads elsewhere, and the state has stayed.
C9_Witness ==
  /\ Dispatched /\ Matching # {}
  /\ result = "NoChange"
  /\ Selected.to # pre.current
  /\ _current_state = pre.current
  /\ _current_state # initial_state

\* C10: with the table of the test and Initial as the initial state, the
\* dispatches Event1, Event1, Event2, Event3 on a fresh machine give: Change,
\* State1 and context1 at its enter value; NotFound and still State1; Change,
\* State2, context1 at its exit value and context2 at its enter value;
\* Change, Initial and context2 at its exit value.
C10_TestScenario ==
  (_transitions = TestTable /\ initial_state = "Initial" /\ Dispatched) =>
    /\ scenario = 1 =>
         /\ result = "Change" /\ _current_state = "State1"
         /\ context1.positive_int = CONTEXT1_ON_ENTER_VALUE
    /\ scenario = 2 =>
         /\ result = "NotFound" /\ _current_state = "State1"
    /\ scenario = 3 =>
         /\ result = "Change" /\ _current_state = "State2"
         /\ context1.positive_int = CONTEXT1_ON_EXIT_VALUE
         /\ context2.negative_int = CONTEXT2_ON_ENTER_VALUE
    /\ scenario = 4 =>
         /\ result = "Change" /\ _current_state = "Initial"
         /\ context2.negative_int = CONTEXT2_ON_EXIT_VALUE

\* C10 witness: the fourth dispatch of the scenario has returned.
C10_Witness ==
  /\ _transitions = TestTable /\ initial_state = "Initial"
  /\ Dispatched /\ scenario = 4

\* C11: a context's type tag is the one given at construction in every
\* reachable state, so is<T>() is true for the context's own class and false
\* for the other class, before and after every call.
C11_TagsAreFixed ==
  /\ context1.derived_type = NewContext1.derived_type
  /\ context2.derived_type = NewContext2.derived_type
  /\ IsType(context1, Context1_type) /\ ~IsType(context1, Context2_type)
  /\ IsType(context2, Context2_type) /\ ~IsType(context2, Context1_type)
  /\ \A type \in {Context1_type, Context2_type} :
       /\ IsType(context1, type) = IsType(pre.context1, type)
       /\ IsType(context2, type) = IsType(pre.context2, type)

\* C11 witness: as in testContextType, getContext has returned the address
\* of context1, after hooks have written into both contexts.
C11_Witness ==
  /\ call.op = "getContext"
  /\ result = "context1"
  /\ context1.positive_int # 0
  /\ context2.negative_int # 0

\* The state whose enter hook the last dispatch looks for.
NextOfSelected == IF result = "Reset" THEN initial_state ELSE Selected.to

\* C13: once a transition is selected, its on_exit (if set) and the on_enter
\* found for the next state (if any) are invoked whatever the result; for
\* NoChange, NotFound and InvalidContext the next state is the selected
\* transition's to although the current state stays what it was.
C13_HooksRunForEveryResult ==
  (Dispatched /\ Matching # {}) =>
    /\ Selected.on_exit # NULL => Cardinality(Entries("on_exit")) = 1
    /\ IF Entering(NextOfSelected) = {}
       THEN Entries("on_enter") = {}
       ELSE /\ Cardinality(Entries("on_enter")) = 1
            /\ \A k \in Entries("on_enter") :
                 log[k].owner = Least(Entering(NextOfSelected))
    /\ result \in {"NoChange", "NotFound", "InvalidContext"} =>
         _current_state = pre.current

\* C13 witness: a result that keeps the state, on a transition that leads
\* elsewhere, with both hooks run.
C13_Witness ==
  /\ Dispatched /\ Matching # {}
  /\ result \in {"NoChange", "NotFound", "InvalidContext"}
  /\ Selected.to # pre.current
  /\ Entries("on_exit") # {}
  /\ Entries("on_enter") # {}
  /\ _current_state = pre.current

\* C14: the enter hook a dispatch runs is the on_enter of the first
\* transition in declaration order that leaves the next state and has an
\* on_enter: earlier transitions from that state without on_enter are
\* skipped, later ones are not invoked.  It gets the selected transition's
\* from, event and to and its own transition's context; on_transition and
\* on_exit get the selected transition's context.
C14_EnterHookOfNextState ==
  (Dispatched /\ Matching # {}) =>
    /\ Cardinality(Entries("on_enter")) <= 1
    /\ Entering(NextOfSelected) # {} => Entries("on_enter") # {}
    /\ \A k \in Entries("on_enter") :
         /\ _transitions[log[k].owner].from = NextOfSelected
         /\ _transitions[log[k].owner].on_enter # NULL
         /\ \A j \in 1..(log[k].owner - 1) :
              \/ _transitions[j].from # NextOfSelected
              \/ _transitions[j].on_enter = NULL
         /\ log[k].fn = _transitions[log[k].owner].on_enter
         /\ log[k].context = _transitions[log[k].owner].context
         /\ log[k].from = Selected.from
         /\ log[k].event = Selected.event
         /\ log[k].to = Selected.to
    /\ \A k \in Entries("on_transition") \cup Entries("on_exit") :
         log[k].context = Selected.context

\* C14 witness: the enter hook belongs to a transition that is neither the
\* first from the next state nor the last with an on_enter, and its context
\* is not the selected transition's.
C14_Witness ==
  /\ Dispatched /\ Matching # {}
  /\ \E k \in Entries("on_enter") :
       /\ \E j \in 1..(log[k].owner - 1) :
            _transitions[j].from = NextOfSelected
       /\ \E j \in (log[k].owner + 1)..Len(_transitions) :
            j \in Entering(NextOfSelected)
       /\ log[k].context # Selected.context

\* C15 as stated: a dispatch that leaves state S (result Change or Reset)
\* invokes an on_exit whenever some transition from S declares one, whichever
\* transition from S was selected.
C15_ExitHookOfTheState ==
  (/\ Dispatched /\ Matching # {}
   /\ result \in {"Change", "Reset"}
   /\ _current_state # pre.current
   /\ \E i \in 1..Len(_transitions) :
        _transitions[i].from = pre.current /\ _transitions[i].on_exit # NULL)
  => Entries("on_exit") # {}

\* C15 amended: a dispatch invokes an on_exit exactly when the selected
\* transition itself declares one, and it is that transition's; the on_exit
\* of another transition from the same state is not invoked.
C15_ExitHookOfTheTransition ==
  /\ (Dispatched /\ Matching = {}) => Entries("on_exit") = {}
  /\ (Dispatched /\ Matching # {}) =>
       /\ (Entries("on_exit") # {}) = (Selected.on_exit # NULL)
       /\ \A k \in Entries("on_exit") :
            /\ log[k].owner = Least(Matching)
            /\ log[k].fn = Selected.on_exit

\* C15 witness: the state was left over a transition without on_exit while
\* another transition from that state has one, and no on_exit ran.
C15_Witness ==
  /\ Dispatched /\ Matching # {}
  /\ result \in {"Change", "Reset"}
  /\ _current_state # pre.current
  /\ Selected.on_exit = NULL
  /\ \E i \in 1..Len(_transitions) :
       _transitions[i].from = pre.current /\ _transitions[i].on_exit # NULL
  /\ Entries("on_exit") = {}

\* C17: in every reachable state the current state is the initial state or
\* the to of some transition of the table.
C17_InitialOrDestination ==
  \/ _current_state = initial_state
  \/ \E i \in 1..Len(_transitions) : _transitions[i].to = _current_state

\* C17 witness: the machine has left the initial state, and the table has a
\* state that is only a from and is not the initial state.
C17_Witness ==
  /\ Dispatched
  /\ _current_state # initial_state
  /\ \E i \in 1..Len(_transitions) :
       /\ _transitions[i].from # initial_state
       /\ \A j \in 1..Len(_transitions) :
            _transitions[j].to # _transitions[i].from

\* C18: after any history, resetState leaves a machine that from then on
\* returns the same values, invokes the same callbacks with the same
\* arguments and is in the same states as a newly constructed machine given
\* the same calls and the same answers of the decision callbacks; a second
\* resetState changes nothing.
C18_ResetIsFresh ==
  /\ fresh.current = _current_state
  /\ fresh.result = result
  /\ fresh.log = log
  /\ _initial_state = initial_state

\* C18 witness: a dispatch that changed the state and ran hooks, on a machine
\* reset after hooks had written into a context.
C18_Witness ==
  /\ fresh.reset
  /\ Dispatched /\ result = "Change"
  /\ Len(log) >= 2
  /\ pre.current = initial_state
  /\ pre.context1 # NewContext1
  /\ _current_state # initial_state

----------------------------------------------------------------------------
(* Claims about dispatch statement by statement (StepSpec, RaceSpec).     *)

\* The place of a kind of event in the body of dispatch.
Rank(kind) ==
  CASE kind = "on_transition" -> 1
    [] kind = "on_exit" -> 2
    [] kind = "on_enter" -> 3
    [] kind = "write" -> 4

\* The kinds of the events a call has produced so far.
Kinds(f) == {f.log[k].kind : k \in 1..Len(f.log)}

\* C12: within one dispatch call that selects a transition the events occur
\* in the order on_transition, on_exit, on_enter, write of the current
\* state, each at most once; when the call is over the callbacks invoked are
\* exactly the selected transition's on_transition and on_exit, where set,
\* and the on_enter of a transition leaving the next state, where there is
\* one.
C12_CallbackOrder ==
  \A th \in DOMAIN frames :
    LET f == frames[th]
    IN /\ \A a, b \in 1..Len(f.log) :
            a < b => Rank(f.log[a].kind) < Rank(f.log[b].kind)
       /\ f.pc = "done" /\ f.seen # NULL =>
            LET t == _transitions[f.i]
            IN /\ "on_transition" \in Kinds(f) <=> t.on_transition # NULL
               /\ "on_exit" \in Kinds(f) <=> t.on_exit # NULL
               /\ "on_enter" \in Kinds(f) <=>
                    \E n \in 1..Len(_transitions) :
                      /\ _transitions[n].from = f.next_state
                      /\ _transitions[n].on_enter # NULL

\* A call that invoked all three callbacks and wrote the current state,
\* with a second transition that leaves the next state and has an on_enter.
C12_Witness ==
  /\ frames["main"].pc = "done"
  /\ Len(frames["main"].log) = 4
  /\ Cardinality({n \in 1..Len(_transitions) :
                    /\ _transitions[n].from = frames["main"].next_state
                    /\ _transitions[n].on_enter # NULL}) >= 2

\* The value the switch leaves in the current state for a call that entered
\* with the state entry, selected t and has the result r.
Committed(r, t, entry) ==
  CASE r = "Change" -> t.to
    [] r = "Reset" -> initial_state
    [] OTHER -> entry

\* C16: a dispatch call is atomic with respect to the current state: until
\* its switch the current state is the one the call was entered with, so
\* every callback it invokes observes that state; the state is written at
\* most once, as the last event of the call; and after the call it is the
\* committed state (or still the state at entry when nothing is committed).
C16_DispatchIsAtomic ==
  \A th \in DOMAIN frames :
    LET f == frames[th]
    IN /\ f.pc \in {"select", "decide", "exit", "enter", "commit"} =>
            _current_state = f.entry
       /\ \A k \in 1..Len(f.log) :
            IF f.log[k].kind = "write"
            THEN k = Len(f.log)
            ELSE f.log[k].current = f.entry
       /\ f.pc = "done" =>
            /\ "write" \in Kinds(f) <=> f.ret \in {"Change", "Reset"}
            /\ _current_state =
                 IF f.seen = NULL
                 THEN f.entry
                 ELSE Committed(f.ret, _transitions[f.i], f.entry)

\* A call that invoked an exit and an enter hook and then moved the machine
\* to another state.
C16_Witness ==
  /\ frames["main"].pc = "done"
  /\ {"on_exit", "on_enter", "write"} \subseteq Kinds(frames["main"])
  /\ _current_state # frames["main"].entry

\* C20: every dispatch call terminates, given that the callbacks it invokes
\* return, and returns one of the five outcomes; its two scans start at the
\* first transition, go from one transition to the next and never beyond
\* the end of the table, so that each transition is examined at most once in
\* each scan; and outside a call nothing of the machine changes.
C20_DispatchTerminates ==
  /\ frames["main"].pc # "idle" ~> frames["main"].pc = "done"
  /\ [](frames["main"].pc = "done" => frames["main"].ret \in TranResult)
  /\ [](/\ frames["main"].pc = "select" =>
             frames["main"].i \in 1..(Len(_transitions) + 1)
        /\ frames["main"].pc = "enter" =>
             frames["main"].n \in 1..(Len(_transitions) + 1))
  /\ [][/\ frames'["main"].pc = "select" =>
             frames'["main"].i = IF frames["main"].pc = "select"
                                 THEN frames["main"].i + 1 ELSE 1
        /\ frames'["main"].pc = "enter" =>
             frames'["main"].n = IF frames["main"].pc = "enter"
                                 THEN frames["main"].n + 1 ELSE 1
        /\ frames["main"].pc \notin {"idle", "select"} =>
             frames'["main"].i \in {frames["main"].i, 0}
        /\ frames["main"].pc \in {"idle", "done"} =>
             UNCHANGED <<_current_state, context1, context2>>]_vars

\* A call that has come to its end after selecting the last of several
\* transitions and scanning the whole table for an on_enter.
C20_Witness ==
  /\ frames["main"].pc = "done"
  /\ Len(_transitions) >= 2
  /\ frames["main"].i = Len(_transitions)
  /\ frames["main"].n = Len(_transitions) + 1
  /\ frames["main"].ret \in {"NoChange", "InvalidContext"}

\* What the two calls dispatch(e1); dispatch(e2), made one after the other on
\* a machine in state s, can return and leave as the current state.
Answers(i) ==
  IF i = 0
  THEN {"NotFound"}
  ELSE IF _transitions[i].on_transition # NULL
       THEN {Decide(_transitions[i], r) :
               r \in CallbackReturns(_transitions[i].on_transition)}
       ELSE {Decide(_transitions[i], "Change")}

After(s, i, res) ==
  IF i = 0 THEN s ELSE Commit(res, _transitions[i], s, _initial_state)

Sequential(s, e1, e2) ==
  LET i1 == SelectTransition(_transitions, s, e1)
  IN UNION { LET s1 == After(s, i1, r1)
                 i2 == SelectTransition(_transitions, s1, e2)
             IN { <<r1, r2, After(s1, i2, r2)>> : r2 \in Answers(i2) } :
             r1 \in Answers(i1) }

\* Two calls on two threads that were entered in the same state and each
\* selected a transition against that state.
SamePreState(a, b) ==
  /\ frames[a].entry = frames[b].entry
  /\ frames[a].seen = frames[a].entry
  /\ frames[b].seen = frames[b].entry

\* The event of b's call has no transition from the destination of a's.
NoEdgeAfter(a, b) ==
  SelectTransition(_transitions, _transitions[frames[a].i].to,
                   frames[b].event) = 0

\* C19: when two unsynchronised dispatch calls have both returned Change,
\* the current state is the destination of the one that wrote last; and when
\* both selected against the same state at entry and neither event has a
\* transition from the other call's destination, no succession of the two
\* calls one after the other from that state gives this outcome.
C19_LastCommitWins ==
  \A a, b \in DOMAIN frames :
    ( /\ a # b
      /\ frames[a].pc = "done" /\ frames[a].ret = "Change"
      /\ frames[b].pc = "done" /\ frames[b].ret = "Change"
      /\ frames[b].last ) =>
        /\ _current_state = _transitions[frames[b].i].to
        /\ (SamePreState(a, b) /\ NoEdgeAfter(a, b) /\ NoEdgeAfter(b, a)) =>
             <<"Change", "Change", _current_state>> \notin
               ( Sequential(frames[a].entry, frames[a].event, frames[b].event)
                 \cup
                 Sequential(frames[b].entry, frames[b].event, frames[a].event) )

\* Both calls selected against the same state and returned Change, their
\* destinations differ, and the machine is in the destination of the later
\* write.
C19_Witness ==
  \E a, b \in DOMAIN frames :
    /\ a # b
    /\ frames[a].pc = "done" /\ frames[a].ret = "Change"
    /\ frames[b].pc = "done" /\ frames[b].ret = "Change"
    /\ frames[b].last
    /\ SamePreState(a, b) /\ NoEdgeAfter(a, b) /\ NoEdgeAfter(b, a)
    /\ _transitions[frames[a].i].to # _transitions[frames[b].i].to
    /\ _current_state = _transitions[frames[b].i].to

====
